---- MODULE Spec2Model ----
(***************************************************************************)
(* Bio-Agent backend (src/main.py, src/db.py): the entity store with its   *)
(* five tables, the upload directory, and the HTTP handlers that read and  *)
(* write them.  A handler that issues several statements is modelled one   *)
(* statement group per step, so that requests served by different worker   *)
(* threads interleave the way the threadpool lets them.                    *)
(***************************************************************************)
EXTENDS Integers, Sequences, FiniteSets, TLC

\* ------------------------------------------------------------------ bounds
MaxProjects == 2      \* project ids ever generated
MaxAudio == 2         \* audio rows ever inserted
MaxRows == 2          \* dialogue + blueprint + article rows ever inserted
MaxVersion == 2       \* version numbers drawn for blueprint / article rows
MaxConc == 2          \* requests in flight at once
MaxCalls == 3         \* trigger calls in a client's script

Slots == 1..MaxConc
Versions == 1..MaxVersion

\* ------------------------------------------------------------------ text
\* str.lower() on one character
UpperChars == <<"A","B","C","D","E","F","G","H","I","J","K","L","M",
                "N","O","P","Q","R","S","T","U","V","W","X","Y","Z">>
LowerChars == <<"a","b","c","d","e","f","g","h","i","j","k","l","m",
                "n","o","p","q","r","s","t","u","v","w","x","y","z">>

LowerChar(c) ==
  IF \E i \in 1..Len(UpperChars) : UpperChars[i] = c
  THEN LowerChars[CHOOSE i \in 1..Len(UpperChars) : UpperChars[i] = c]
  ELSE c

lower(str) == [i \in 1..Len(str) |-> LowerChar(str[i])]

\* str.rfind(ch): the last position of ch, 0 when absent (Python: -1)
rfind(str, ch) ==
  IF \E i \in 1..Len(str) : str[i] = ch
  THEN CHOOSE i \in 1..Len(str) :
         str[i] = ch /\ \A j \in (i+1)..Len(str) : str[j] # ch
  ELSE 0

\* os.path.splitext(p)[1]: the text from the last dot on, when that dot comes
\* after the last separator and is not one of the leading dots of the basename
splitext_ext(p) ==
  LET sepIndex == rfind(p, "/")
      dotIndex == rfind(p, ".")
  IN IF dotIndex > sepIndex
        /\ \E k \in (sepIndex+1)..(dotIndex-1) : p[k] # "."
     THEN SubSeq(p, dotIndex, Len(p))
     ELSE <<>>

allowed == { <<".","m","p","3">>, <<".","w","a","v">>,
             <<".","m","4","a">>, <<".","f","l","a","c">> }

ExtAllowed(fname) == lower(splitext_ext(fname)) \in allowed

\* the filenames uploads are drawn from
FileNames ==
  { <<"a",".","m","p","3">>,
    <<"b",".","W","A","V">>,
    <<"c",".","x",".","m","4","a">>,
    <<"d",".","f","l","a","c">>,
    <<"a",".","t","x","t">>,
    <<".","m","p","3">>,
    <<"m","p","3">>,
    <<"a",".","m","p","3",".","t","x","t">>,
    <<"e",".","w","a","v","/","f">>,
    <<"x","/","a",".","m","p","3">> }


\* ------------------------------------------------------------------ state
VARIABLES
  projects,      \* table projects: id -> [name, status, current_agent]
  nextId,        \* how many project ids uuid4 has produced so far
  audio_files,   \* table audio_files: rows [project_id, filename], row id = position
  dialogues,     \* table dialogues: rows [project_id]
  blueprints,    \* table blueprints: rows [project_id, version]
  articles,      \* table articles: rows [project_id, version]
  uploads,       \* UPLOAD_DIR: the paths <<project_id, filename>> that hold a file
  req,           \* per worker: the request it is serving and where it stands
  resp,          \* the last response sent
  script,        \* the trigger calls a scripted client is going to make
  pos            \* how many of them it has made

vars == <<projects, nextId, audio_files, dialogues, blueprints, articles,
          uploads, req, resp, script, pos>>

client == <<script, pos>>

Names == {"P1"}
NoAgent == "None"

Idle == [op |-> "idle", pid |-> 0, pc |-> "", fname |-> <<>>,
         status |-> "", agent |-> ""]

NoResp == [op |-> "", pid |-> 0, code |-> 0, status |-> "", agent |-> "",
           fname |-> <<>>, row |-> 0]

Reply(op, pid, code) == [NoResp EXCEPT !.op = op, !.pid = pid, !.code = code]

\* Column defaults of a new Project row
NewProject(name) ==
  [name |-> name, status |-> "INITIALIZED", current_agent |-> NoAgent]

\* the fixed target each trigger endpoint writes
TriggerOps == {"transcribe", "plan", "write"}

TargetStatus(op) ==
  CASE op = "transcribe" -> "TRANSCRIBING"
    [] op = "plan" -> "PLANNING"
    [] op = "write" -> "WRITING"

TargetAgent(op) ==
  CASE op = "transcribe" -> "AudioProcessingAgent"
    [] op = "plan" -> "PlanningAgent"
    [] op = "write" -> "WritingAgent"

Exists(pid) == pid \in DOMAIN projects

RowsOf(table, pid) == { i \in 1..Len(table) : table[i].project_id = pid }

\* rows of any child table whose foreign key names the project
HasChildren(pid) ==
  \/ RowsOf(audio_files, pid) # {}
  \/ RowsOf(dialogues, pid) # {}
  \/ RowsOf(blueprints, pid) # {}
  \/ RowsOf(articles, pid) # {}

AllIdle == \A s \in Slots : req[s] = Idle

Store == <<projects, nextId, audio_files, dialogues, blueprints, articles>>

\* ------------------------------------------------------------------ projects
\* POST /projects: insert, commit, refresh, return the row
create_project(name) ==
  /\ nextId <= MaxProjects
  /\ projects' = [i \in DOMAIN projects \cup {nextId} |->
                    IF i = nextId THEN NewProject(name) ELSE projects[i]]
  /\ nextId' = nextId + 1
  /\ resp' = [Reply("create", nextId, 200) EXCEPT
                !.status = NewProject(name).status,
                !.agent = NewProject(name).current_agent]
  /\ UNCHANGED <<audio_files, dialogues, blueprints, articles, uploads, req>>

\* GET /projects/{id}
get_project(pid) ==
  /\ resp' = IF Exists(pid)
             THEN [Reply("get", pid, 200) EXCEPT
                     !.status = projects[pid].status,
                     !.agent = projects[pid].current_agent]
             ELSE Reply("get", pid, 404)
  /\ UNCHANGED <<Store, uploads, req>>

\* DELETE /projects/{id}, first statement: load the project or answer 404
delete_project_read(s, pid) ==
  /\ req[s] = Idle
  /\ IF Exists(pid)
     THEN /\ req' = [req EXCEPT ![s] = [Idle EXCEPT !.op = "delete", !.pid = pid,
                                                     !.pc = "commit"]]
          /\ UNCHANGED resp
     ELSE /\ resp' = Reply("delete", pid, 404)
          /\ UNCHANGED req
  /\ UNCHANGED <<Store, uploads>>

\* delete_project_commit against a store that lets the project row go while
\* child rows still name it
delete_project_commit_orphan(s) ==
  /\ req[s].op = "delete" /\ req[s].pc = "commit"
  /\ projects' = [i \in DOMAIN projects \ {req[s].pid} |-> projects[i]]
  /\ resp' = Reply("delete", req[s].pid, 200)
  /\ req' = [req EXCEPT ![s] = Idle]
  /\ UNCHANGED <<nextId, audio_files, dialogues, blueprints, articles, uploads>>

\* db.delete(project); db.commit(): the store refuses the delete while a child
\* row names the project (project_id is NOT NULL and a foreign key without
\* ON DELETE), otherwise the row goes; the upload directory is not touched
delete_project_commit(s) ==
  /\ req[s].op = "delete" /\ req[s].pc = "commit"
  /\ LET pid == req[s].pid IN
       IF HasChildren(pid)
       THEN /\ resp' = Reply("delete", pid, 500)
            /\ UNCHANGED projects
       ELSE /\ projects' = [i \in DOMAIN projects \ {pid} |-> projects[i]]
            /\ resp' = Reply("delete", pid, 200)
  /\ req' = [req EXCEPT ![s] = Idle]
  /\ UNCHANGED <<nextId, audio_files, dialogues, blueprints, articles, uploads>>

\* ------------------------------------------------------------------ audio
InFlightUploads == Cardinality({ s \in Slots : req[s].op = "upload" })

\* open(file_path, "wb") needs the file's directory: save_dir is created by the
\* handler, a directory named inside the filename is not
ParentDirExists(fname) == rfind(fname, "/") = 0

\* upload_audio_check with the two checks in the other order
upload_audio_check_ext_first(s, pid, fname) ==
  /\ req[s] = Idle
  /\ (Exists(pid) /\ ExtAllowed(fname)) =>
       Len(audio_files) + InFlightUploads < MaxAudio
  /\ IF ~ExtAllowed(fname)
     THEN /\ resp' = [Reply("upload", pid, 400) EXCEPT !.fname = fname]
          /\ UNCHANGED req
     ELSE IF ~Exists(pid)
     THEN /\ resp' = Reply("upload", pid, 404)
          /\ UNCHANGED req
     ELSE /\ req' = [req EXCEPT ![s] = [Idle EXCEPT !.op = "upload", !.pid = pid,
                                          !.pc = "write", !.fname = fname]]
          /\ UNCHANGED resp
  /\ UNCHANGED <<Store, uploads>>

\* POST /projects/{id}/audio up to the extension check
upload_audio_check(s, pid, fname) ==
  /\ req[s] = Idle
  /\ (Exists(pid) /\ ExtAllowed(fname)) =>
       Len(audio_files) + InFlightUploads < MaxAudio
  /\ IF ~Exists(pid)
     THEN /\ resp' = Reply("upload", pid, 404)
          /\ UNCHANGED req
     ELSE IF ~ExtAllowed(fname)
     THEN /\ resp' = [Reply("upload", pid, 400) EXCEPT !.fname = fname]
          /\ UNCHANGED req
     ELSE /\ req' = [req EXCEPT ![s] = [Idle EXCEPT !.op = "upload", !.pid = pid,
                                          !.pc = "write", !.fname = fname]]
          /\ UNCHANGED resp
  /\ UNCHANGED <<Store, uploads>>

\* save_dir.mkdir(exist_ok=True); open(save_dir / filename, "wb"); copyfileobj
upload_audio_write(s) ==
  /\ req[s].op = "upload" /\ req[s].pc = "write"
  /\ LET path == <<req[s].pid, req[s].fname>> IN
       IF ParentDirExists(req[s].fname)
       THEN /\ uploads' = uploads \cup {path}
            /\ req' = [req EXCEPT ![s].pc = "commit"]
            /\ UNCHANGED resp
       ELSE /\ resp' = [Reply("upload", req[s].pid, 500) EXCEPT
                          !.fname = req[s].fname]
            /\ req' = [req EXCEPT ![s] = Idle]
            /\ UNCHANGED uploads
  /\ UNCHANGED Store

\* upload_audio_commit against a table without the foreign key
upload_audio_commit_unchecked(s) ==
  /\ req[s].op = "upload" /\ req[s].pc = "commit"
  /\ audio_files' = Append(audio_files,
         [project_id |-> req[s].pid, filename |-> req[s].fname])
  /\ resp' = [Reply("upload", req[s].pid, 200) EXCEPT !.fname = req[s].fname]
  /\ req' = [req EXCEPT ![s] = Idle]
  /\ UNCHANGED <<projects, nextId, dialogues, blueprints, articles, uploads>>

\* upload_audio_commit that keeps one row per project and filename
upload_audio_commit_upsert(s) ==
  /\ req[s].op = "upload" /\ req[s].pc = "commit"
  /\ IF Exists(req[s].pid)
     THEN /\ audio_files' =
               IF \E i \in 1..Len(audio_files) :
                    audio_files[i] = [project_id |-> req[s].pid,
                                      filename |-> req[s].fname]
               THEN audio_files
               ELSE Append(audio_files,
                      [project_id |-> req[s].pid, filename |-> req[s].fname])
          /\ resp' = [Reply("upload", req[s].pid, 200) EXCEPT
                        !.fname = req[s].fname]
     ELSE /\ resp' = [Reply("upload", req[s].pid, 500) EXCEPT
                        !.fname = req[s].fname]
          /\ UNCHANGED audio_files
  /\ req' = [req EXCEPT ![s] = Idle]
  /\ UNCHANGED <<projects, nextId, dialogues, blueprints, articles, uploads>>

\* db.add(AudioFile(...)); db.commit(): the foreign key admits the row only
\* while the project row is there
upload_audio_commit(s) ==
  /\ req[s].op = "upload" /\ req[s].pc = "commit"
  /\ IF Exists(req[s].pid)
     THEN /\ audio_files' = Append(audio_files,
                 [project_id |-> req[s].pid, filename |-> req[s].fname])
          /\ resp' = [Reply("upload", req[s].pid, 200) EXCEPT
                        !.fname = req[s].fname]
     ELSE /\ resp' = [Reply("upload", req[s].pid, 500) EXCEPT
                        !.fname = req[s].fname]
          /\ UNCHANGED audio_files
  /\ req' = [req EXCEPT ![s] = Idle]
  /\ UNCHANGED <<projects, nextId, dialogues, blueprints, articles, uploads>>

\* GET /projects/{id}/audio: the filenames of the project's rows
list_audio(pid) == { audio_files[i].filename : i \in RowsOf(audio_files, pid) }

\* the files stored under the project's directory
StoredNames(pid) == { q[2] : q \in { r \in uploads : r[1] = pid } }

\* ------------------------------------------------------------------ triggers
\* first statement of start_transcribe / start_planning / start_writing
trigger_read(s, op, pid) ==
  /\ req[s] = Idle
  /\ IF Exists(pid)
     THEN /\ req' = [req EXCEPT ![s] = [Idle EXCEPT !.op = op, !.pid = pid,
                                          !.pc = "commit",
                                          !.status = projects[pid].status,
                                          !.agent = projects[pid].current_agent]]
          /\ UNCHANGED resp
     ELSE /\ resp' = Reply(op, pid, 404)
          /\ UNCHANGED req
  /\ UNCHANGED <<Store, uploads>>

\* the declared lifecycle order
Rank(status) ==
  CASE status = "INITIALIZED" -> 0
    [] status = "TRANSCRIBING" -> 1
    [] status = "PLANNING" -> 2
    [] status = "WRITING" -> 3
    [] OTHER -> 4

\* trigger_commit with a transition guard: the write is made only from the
\* status that precedes the target, any other call is answered 409
trigger_commit_guarded(s) ==
  /\ req[s].op \in TriggerOps /\ req[s].pc = "commit"
  /\ LET op == req[s].op
         pid == req[s].pid
     IN IF Exists(pid) /\ Rank(req[s].status) + 1 = Rank(TargetStatus(op))
        THEN /\ projects' = [projects EXCEPT ![pid] =
                 [@ EXCEPT !.status = TargetStatus(op),
                           !.current_agent = TargetAgent(op)]]
             /\ req' = [req EXCEPT ![s].pc = "return"]
             /\ UNCHANGED resp
        ELSE /\ resp' = Reply(op, pid, 409)
             /\ req' = [req EXCEPT ![s] = Idle]
             /\ UNCHANGED projects
  /\ UNCHANGED <<nextId, audio_files, dialogues, blueprints, articles, uploads>>

\* trigger_commit that never moves a project back in the lifecycle
trigger_commit_monotonic(s) ==
  /\ req[s].op \in TriggerOps /\ req[s].pc = "commit"
  /\ LET op == req[s].op
         pid == req[s].pid
     IN /\ projects' = IF Exists(pid) /\ Rank(projects[pid].status) < Rank(TargetStatus(op))
                       THEN [projects EXCEPT ![pid] =
                               [@ EXCEPT !.status = TargetStatus(op),
                                         !.current_agent = TargetAgent(op)]]
                       ELSE projects
        /\ req' = [req EXCEPT ![s].pc = "return"]
        /\ UNCHANGED resp
  /\ UNCHANGED <<nextId, audio_files, dialogues, blueprints, articles, uploads>>

\* trigger_commit that writes both columns whether or not they changed
trigger_commit_all_columns(s) ==
  /\ req[s].op \in TriggerOps /\ req[s].pc = "commit"
  /\ LET op == req[s].op
         pid == req[s].pid
     IN IF ~Exists(pid)
        THEN /\ resp' = Reply(op, pid, 500)
             /\ req' = [req EXCEPT ![s] = Idle]
             /\ UNCHANGED projects
        ELSE /\ projects' = [projects EXCEPT ![pid] =
                 [@ EXCEPT !.status = TargetStatus(op),
                           !.current_agent = TargetAgent(op)]]
             /\ req' = [req EXCEPT ![s].pc = "return"]
             /\ UNCHANGED resp
  /\ UNCHANGED <<nextId, audio_files, dialogues, blueprints, articles, uploads>>

\* trigger_commit that forgets current_agent
trigger_commit_status_only(s) ==
  /\ req[s].op \in TriggerOps /\ req[s].pc = "commit"
  /\ LET op == req[s].op
         pid == req[s].pid
     IN IF req[s].status = TargetStatus(op)
        THEN /\ req' = [req EXCEPT ![s].pc = "return"]
             /\ UNCHANGED <<projects, resp>>
        ELSE IF ~Exists(pid)
        THEN /\ resp' = Reply(op, pid, 500)
             /\ req' = [req EXCEPT ![s] = Idle]
             /\ UNCHANGED projects
        ELSE /\ projects' = [projects EXCEPT ![pid].status = TargetStatus(op)]
             /\ req' = [req EXCEPT ![s].pc = "return"]
             /\ UNCHANGED resp
  /\ UNCHANGED <<nextId, audio_files, dialogues, blueprints, articles, uploads>>

\* project.status = ...; project.current_agent = ...; db.commit(): the flush
\* writes the columns whose value differs from the value loaded, and none
\* when both are as loaded; an UPDATE that matches no row is an error
trigger_commit(s) ==
  /\ req[s].op \in TriggerOps /\ req[s].pc = "commit"
  /\ LET op == req[s].op
         pid == req[s].pid
         setStatus == req[s].status # TargetStatus(op)
         setAgent == req[s].agent # TargetAgent(op)
     IN IF ~(setStatus \/ setAgent)
        THEN /\ req' = [req EXCEPT ![s].pc = "return"]
             /\ UNCHANGED <<projects, resp>>
        ELSE IF ~Exists(pid)
        THEN /\ resp' = Reply(op, pid, 500)
             /\ req' = [req EXCEPT ![s] = Idle]
             /\ UNCHANGED projects
        ELSE /\ projects' = [projects EXCEPT ![pid] =
                 [@ EXCEPT !.status = IF setStatus THEN TargetStatus(op) ELSE @,
                           !.current_agent = IF setAgent THEN TargetAgent(op) ELSE @]]
             /\ req' = [req EXCEPT ![s].pc = "return"]
             /\ UNCHANGED resp
  /\ UNCHANGED <<nextId, audio_files, dialogues, blueprints, articles, uploads>>

\* return {"status": project.status}: the commit expired the object, so the
\* attribute is read back from the store
trigger_return(s) ==
  /\ req[s].op \in TriggerOps /\ req[s].pc = "return"
  /\ resp' = IF Exists(req[s].pid)
             THEN [Reply(req[s].op, req[s].pid, 200) EXCEPT
                     !.status = projects[req[s].pid].status]
             ELSE Reply(req[s].op, req[s].pid, 500)
  /\ req' = [req EXCEPT ![s] = Idle]
  /\ UNCHANGED <<Store, uploads>>

\* ------------------------------------------------------------------ child rows
ChildRows == Len(dialogues) + Len(blueprints) + Len(articles)

\* A Dialogue / Blueprint / Article row as the schema admits it: project_id is
\* a foreign key, so the project must be there; version is an integer the
\* writer chooses, neither unique nor sequential
insert_dialogue(pid) ==
  /\ ChildRows < MaxRows /\ Exists(pid)
  /\ dialogues' = Append(dialogues, [project_id |-> pid])
  /\ UNCHANGED <<projects, nextId, audio_files, blueprints, articles, uploads,
                 req, resp>>

insert_blueprint(pid, v) ==
  /\ ChildRows < MaxRows /\ Exists(pid)
  /\ blueprints' = Append(blueprints, [project_id |-> pid, version |-> v])
  /\ UNCHANGED <<projects, nextId, audio_files, dialogues, articles, uploads,
                 req, resp>>

insert_article(pid, v) ==
  /\ ChildRows < MaxRows /\ Exists(pid)
  /\ articles' = Append(articles, [project_id |-> pid, version |-> v])
  /\ UNCHANGED <<projects, nextId, audio_files, dialogues, blueprints, uploads,
                 req, resp>>

\* every order of the row ids in S
Orderings(S) ==
  { f \in [1..Cardinality(S) -> S] :
      \A i, j \in 1..Cardinality(S) : i # j => f[i] # f[j] }

\* order_by(created_at.desc()): the most recently inserted row first
order_by_created_desc(table, pid) ==
  { f \in Orderings(RowsOf(table, pid)) :
      \A i \in 1..(Len(f) - 1) : f[i] > f[i+1] }

\* .filter(project_id == pid).order_by(version.desc()): the project's rows,
\* greater versions first, rows of equal version in whatever order the store
\* yields them
order_by_version_desc(table, pid) ==
  { f \in Orderings(RowsOf(table, pid)) :
      \A i \in 1..(Len(f) - 1) : table[f[i]].version >= table[f[i+1]].version }

\* .first() on the ordered result: the rows it may return
first_by_version(table, pid) ==
  { f[1] : f \in { g \in order_by_version_desc(table, pid) : Len(g) > 0 } }

\* GET /projects/{id}/dialogue: .filter(project_id == pid).first(), no order
get_dialogue(pid) ==
  /\ \/ /\ RowsOf(dialogues, pid) = {}
        /\ resp' = Reply("dialogue", pid, 404)
     \/ \E r \in RowsOf(dialogues, pid) :
          resp' = [Reply("dialogue", pid, 200) EXCEPT !.row = r]
  /\ UNCHANGED <<Store, uploads, req>>

\* GET /projects/{id}/blueprint
get_blueprint(pid) ==
  /\ \/ /\ first_by_version(blueprints, pid) = {}
        /\ resp' = Reply("blueprint", pid, 404)
     \/ \E r \in first_by_version(blueprints, pid) :
          resp' = [Reply("blueprint", pid, 200) EXCEPT !.row = r]
  /\ UNCHANGED <<Store, uploads, req>>

\* GET /projects/{id}/article
get_article(pid) ==
  /\ \/ /\ first_by_version(articles, pid) = {}
        /\ resp' = Reply("article", pid, 404)
     \/ \E r \in first_by_version(articles, pid) :
          resp' = [Reply("article", pid, 200) EXCEPT !.row = r]
  /\ UNCHANGED <<Store, uploads, req>>

\* GET /projects/{id}/article/markdown
get_article_markdown(pid) ==
  /\ \/ /\ first_by_version(articles, pid) = {}
        /\ resp' = Reply("markdown", pid, 404)
     \/ \E r \in first_by_version(articles, pid) :
          resp' = [Reply("markdown", pid, 200) EXCEPT !.row = r]
  /\ UNCHANGED <<Store, uploads, req>>

\* ------------------------------------------------------------------ specifications
\* The ids a client can put in a path: those create_project has returned, and
\* (as 0) a UUID the store never issued
Addressable == 0..(nextId - 1)

\* every sequence of one to MaxCalls trigger calls
Scripts ==
  UNION { [1..n -> TriggerOps] : n \in 1..MaxCalls }

InitStore ==
  /\ projects = << >>
  /\ nextId = 1
  /\ audio_files = << >>
  /\ dialogues = << >>
  /\ blueprints = << >>
  /\ articles = << >>
  /\ uploads = {}
  /\ req = [s \in Slots |-> Idle]
  /\ resp = NoResp

\* a client that issues the calls of its script, one after the other, on the
\* first project
ScriptInit == InitStore /\ script \in Scripts /\ pos = 0

\* clients that issue whatever request at whatever time
Init == InitStore /\ script = << >> /\ pos = 0

\* One client, one request at a time: a project is created and the script's
\* trigger calls are made on it in order
Next ==
  \/ \E n \in Names : AllIdle /\ create_project(n) /\ UNCHANGED client
  \/ /\ AllIdle /\ pos < Len(script) /\ Exists(1)
     /\ trigger_read(1, script[pos + 1], 1)
     /\ pos' = pos + 1 /\ UNCHANGED script
  \/ trigger_commit(1) /\ UNCHANGED client
  \/ trigger_return(1) /\ UNCHANGED client

Spec == ScriptInit /\ [][Next]_vars

\* Uploads one after the other on one worker, while another worker serves
\* deletes that interleave with them
UploadNext ==
  \/ \E n \in Names : create_project(n) /\ UNCHANGED client
  \/ \E pid \in Addressable : delete_project_read(2, pid) /\ UNCHANGED client
  \/ delete_project_commit(2) /\ UNCHANGED client
  \/ \E pid \in Addressable, f \in FileNames :
       upload_audio_check(1, pid, f) /\ UNCHANGED client
  \/ upload_audio_write(1) /\ UNCHANGED client
  \/ upload_audio_commit(1) /\ UNCHANGED client

UploadSpec == Init /\ [][UploadNext]_vars

\* One request at a time: child rows and the reads of them
ReadNext ==
  \/ \E n \in Names : AllIdle /\ create_project(n) /\ UNCHANGED client
  \/ \E pid \in Addressable :
       AllIdle /\ delete_project_read(1, pid) /\ UNCHANGED client
  \/ delete_project_commit(1) /\ UNCHANGED client
  \/ \E pid \in Addressable : AllIdle /\ insert_dialogue(pid) /\ UNCHANGED client
  \/ \E pid \in Addressable, v \in Versions :
       AllIdle /\ insert_blueprint(pid, v) /\ UNCHANGED client
  \/ \E pid \in Addressable, v \in Versions :
       AllIdle /\ insert_article(pid, v) /\ UNCHANGED client
  \/ \E pid \in Addressable : AllIdle /\ get_dialogue(pid) /\ UNCHANGED client
  \/ \E pid \in Addressable : AllIdle /\ get_blueprint(pid) /\ UNCHANGED client
  \/ \E pid \in Addressable : AllIdle /\ get_article(pid) /\ UNCHANGED client
  \/ \E pid \in Addressable :
       AllIdle /\ get_article_markdown(pid) /\ UNCHANGED client

ReadSpec == Init /\ [][ReadNext]_vars

\* the filenames concurrent uploads are drawn from
ConcFileNames == { <<"a",".","m","p","3">>, <<"a",".","t","x","t">> }

\* a request is taken by the first free worker
FirstFree(s) == req[s] = Idle /\ \A t \in 1..(s-1) : req[t] # Idle

\* Requests served concurrently, their statements interleaved
ConcNext ==
  \/ \E n \in Names : create_project(n) /\ UNCHANGED client
  \/ \E pid \in Addressable : get_project(pid) /\ UNCHANGED client
  \/ \E s \in Slots, pid \in Addressable :
       FirstFree(s) /\ delete_project_read(s, pid) /\ UNCHANGED client
  \/ \E s \in Slots : delete_project_commit(s) /\ UNCHANGED client
  \/ \E s \in Slots, pid \in Addressable, f \in ConcFileNames :
       FirstFree(s) /\ upload_audio_check(s, pid, f) /\ UNCHANGED client
  \/ \E s \in Slots : upload_audio_write(s) /\ UNCHANGED client
  \/ \E s \in Slots : upload_audio_commit(s) /\ UNCHANGED client
  \/ \E s \in Slots, op \in TriggerOps, pid \in Addressable :
       FirstFree(s) /\ trigger_read(s, op, pid) /\ UNCHANGED client
  \/ \E s \in Slots : trigger_commit(s) /\ UNCHANGED client
  \/ \E s \in Slots : trigger_return(s) /\ UNCHANGED client

ConcSpec == Init /\ [][ConcNext]_vars

\* ------------------------------------------------------------------ triggers, one client
ScriptDone == AllIdle /\ pos = Len(script)

AtTarget(pid, op) ==
  /\ Exists(pid)
  /\ projects[pid].status = TargetStatus(op)
  /\ projects[pid].current_agent = TargetAgent(op)

\* C1: a trigger call on an existing project succeeds whatever the status it
\* finds, leaves status and current_agent at its fixed target and returns
\* that status; after any sequence of calls the project is at the target of
\* the last one, and no other project is touched
C1_TriggerOverwrites ==
  /\ (req[1].op \in TriggerOps /\ req[1].pc = "return") =>
        AtTarget(req[1].pid, req[1].op)
  /\ resp.op \in TriggerOps =>
        /\ resp.code = 200
        /\ resp.status = TargetStatus(resp.op)
  /\ (AllIdle /\ pos >= 1) => AtTarget(1, script[pos])
  /\ (AllIdle /\ pos >= 1 /\ resp.op # "create") =>
        resp.op = script[pos] /\ resp.pid = 1
  /\ \A p \in DOMAIN projects \ {1} : projects[p] = NewProject(projects[p].name)

\* transcribe, then write with plan skipped: WRITING, no error
C1_Witness ==
  /\ script = <<"transcribe", "write">> /\ ScriptDone
  /\ resp.op = "write" /\ resp.code = 200 /\ resp.status = "WRITING"
  /\ AtTarget(1, "write")

IsPermutation(sc) ==
  Len(sc) = 3 /\ { sc[i] : i \in 1..3 } = TriggerOps

\* C9 as stated: once transcribe, plan and write have each been called, in
\* whatever order, the project is at WRITING / WritingAgent
C9_AnyOrderEndsWriting ==
  (IsPermutation(script) /\ ScriptDone) => AtTarget(1, "write")

\* C9 as the code has it: once transcribe, plan and write have each been
\* called, the project is at the target of the call made last, which is
\* WRITING / WritingAgent exactly when write was the last call
C9_LastCallDecides ==
  (IsPermutation(script) /\ ScriptDone) =>
     /\ AtTarget(1, script[3])
     /\ (projects[1].status = "WRITING" <=> script[3] = "write")
     /\ (projects[1].current_agent = "WritingAgent" <=> script[3] = "write")

C9_Witness ==
  /\ script = <<"write", "plan", "transcribe">> /\ ScriptDone
  /\ resp.op = "transcribe" /\ resp.code = 200
  /\ projects[1].status = "TRANSCRIBING"

\* ------------------------------------------------------------------ uploads, one client
\* C3 as stated: an upload to a project that is there, and stays there, is
\* answered 200 exactly when the lower-cased extension of its filename is
\* allowed and 400 otherwise; an accepted upload shows in the project's audio
\* list under its filename, a rejected one stores no file
C3_AcceptedIffExtension ==
  (resp.op = "upload" /\ Exists(resp.pid)) =>
     /\ resp.code = 200 <=> ExtAllowed(resp.fname)
     /\ resp.code # 200 => resp.code = 400
     /\ resp.code = 200 => resp.fname \in list_audio(resp.pid)
     /\ resp.code = 400 => resp.fname \notin StoredNames(resp.pid)

\* ------------------------------------------------------------------ reads
\* what a latest-version read may answer for the rows the table holds
LatestAnswer(table, r) ==
  IF RowsOf(table, r.pid) = {}
  THEN r.code = 404
  ELSE /\ r.code = 200
       /\ r.row \in RowsOf(table, r.pid)
       /\ \A j \in RowsOf(table, r.pid) : table[j].version <= table[r.row].version

NotFoundOps == {"get", "delete", "upload"} \cup TriggerOps

\* C2: get, delete, upload and the three triggers answer 404 for a project id
\* that is not in the store and change nothing: no request gets past its
\* first statement, and no other answer is given, unless the project is there
C2_NotFound ==
  [][ /\ (resp' # resp /\ resp'.op \in NotFoundOps /\ resp'.code = 404) =>
            /\ ~Exists(resp'.pid)
            /\ UNCHANGED <<Store, uploads, req>>
      /\ \A s \in Slots : (req[s] = Idle /\ req'[s] # Idle) => Exists(req'[s].pid)
      /\ (resp' # resp /\ req' = req /\ resp'.op \in NotFoundOps
            /\ resp'.code # 404) => Exists(resp'.pid)
    ]_vars

\* a trigger on a deleted project is answered 404 while files of it are stored
C2_Witness ==
  /\ resp.op \in TriggerOps /\ resp.code = 404
  /\ resp.pid >= 1 /\ ~Exists(resp.pid)
  /\ StoredNames(resp.pid) # {}

DeleteCommits(s) ==
  req[s].op = "delete" /\ req[s].pc = "commit" /\ req'[s] = Idle

TriggerCommits(s) ==
  req[s].op \in TriggerOps /\ req[s].pc = "commit" /\ req'[s] # req[s]

UploadCommits(s) ==
  req[s].op = "upload" /\ req[s].pc = "commit" /\ req'[s] = Idle

ValidPairs ==
  { <<"INITIALIZED", NoAgent>> } \cup
  { <<TargetStatus(op), TargetAgent(op)>> : op \in TriggerOps }

\* C7: every project's (status, current_agent) is (INITIALIZED, none) or the
\* pair of one trigger; create answers INITIALIZED and the project stays so
\* until a trigger commits; a fetch answers one of the four pairs
C7_StatusAgentPairs ==
  /\ \A p \in DOMAIN projects :
       <<projects[p].status, projects[p].current_agent>> \in ValidPairs
  /\ resp.op = "create" =>
       /\ resp.code = 200 /\ resp.status = "INITIALIZED" /\ resp.agent = NoAgent
       /\ (\A s \in Slots : ~(req[s].op \in TriggerOps /\ req[s].pid = resp.pid
                                /\ req[s].pc = "return")) =>
            /\ Exists(resp.pid)
            /\ projects[resp.pid].status = "INITIALIZED"
  /\ (resp.op = "get" /\ resp.code = 200) =>
       <<resp.status, resp.agent>> \in ValidPairs

\* two different triggers in flight on one project, one committed, one not
C7_Witness ==
  \E s, u \in Slots :
    /\ req[s].op \in TriggerOps /\ req[u].op \in TriggerOps
    /\ req[s].op # req[u].op /\ req[s].pid = req[u].pid
    /\ req[s].pc = "return" /\ req[u].pc = "commit"
    /\ req[u].status # "INITIALIZED"
    /\ Exists(req[s].pid)

\* C8: every child row names a project that is in the store, from the moment
\* the row is inserted on: an insert for a project deleted in the meantime is
\* refused
C8_RowsNameProjects ==
  /\ \A i \in 1..Len(audio_files) : Exists(audio_files[i].project_id)
  /\ \A i \in 1..Len(dialogues) : Exists(dialogues[i].project_id)
  /\ \A i \in 1..Len(blueprints) : Exists(blueprints[i].project_id)
  /\ \A i \in 1..Len(articles) : Exists(articles[i].project_id)

\* an upload passed its existence check, the project was deleted, the file
\* was written and the insert refused
C8_Witness ==
  /\ resp.op = "upload" /\ resp.code = 500
  /\ ~Exists(resp.pid)
  /\ <<resp.pid, resp.fname>> \in uploads
  /\ RowsOf(audio_files, resp.pid) = {}

\* filenames written by uploads of the project that have not inserted yet
Pending(pid) ==
  { req[s].fname : s \in { u \in Slots : /\ req[u].op = "upload"
                                         /\ req[u].pc = "commit"
                                         /\ req[u].pid = pid } }

====
